---------------------------- MODULE Spec2Model ----------------------------
(***************************************************************************)
(* IotShadowClient (iotshadowclient.ts, carried in                         *)
(* src/samples/util/cli_args.js from line 287 on): the topic-templated     *)
(* publish / subscribe layer over an external MQTT connection.             *)
(*                                                                         *)
(* Strings are sequences of one-character strings.  Bytes of a payload are *)
(* one-character strings for ASCII and "xHH" for a byte above 0x7F.        *)
(***************************************************************************)
EXTENDS Naturals, Sequences, FiniteSets

VARIABLES calls, deliveries, invocations, dispatchFaults, outbound, online,
          connections, options

\* The state of the sample's command-line helpers.
cli == <<connections, options>>

vars == <<calls, deliveries, invocations, dispatchFaults, outbound, online, cli>>

\* Bounds of the model.
MaxCalls == 1
MaxDeliveries == 2

(***************************************************************************)
(* String literals of the source.                                          *)
(***************************************************************************)
AwsThings == <<"$", "a", "w", "s", "/", "t", "h", "i", "n", "g", "s", "/">>
PhThingName == <<"{", "t", "h", "i", "n", "g", "N", "a", "m", "e", "}">>
PhShadowName == <<"{", "s", "h", "a", "d", "o", "w", "N", "a", "m", "e", "}">>
ShadowSeg == <<"/", "s", "h", "a", "d", "o", "w">>
NameSeg == <<"/", "n", "a", "m", "e", "/">>
GetSeg == <<"/", "g", "e", "t">>
UpdateSeg == <<"/", "u", "p", "d", "a", "t", "e">>
DeleteSeg == <<"/", "d", "e", "l", "e", "t", "e">>
AcceptedSeg == <<"/", "a", "c", "c", "e", "p", "t", "e", "d">>
RejectedSeg == <<"/", "r", "e", "j", "e", "c", "t", "e", "d">>
DeltaSeg == <<"/", "d", "e", "l", "t", "a">>
DocumentsSeg == <<"/", "d", "o", "c", "u", "m", "e", "n", "t", "s">>
KeyThingName == <<"t", "h", "i", "n", "g", "N", "a", "m", "e">>
KeyShadowName == <<"s", "h", "a", "d", "o", "w", "N", "a", "m", "e">>

\* "$aws/things/{thingName}/shadow<suffix>"
ClassicTemplate(suffix) == AwsThings \o PhThingName \o ShadowSeg \o suffix

\* The named-shadow literal written without its name level.
NamedTemplate_without_name(suffix) == AwsThings \o PhThingName \o ShadowSeg \o suffix

\* "$aws/things/{thingName}/shadow/name/{shadowName}<suffix>"
NamedTemplate(suffix) ==
    AwsThings \o PhThingName \o ShadowSeg \o NameSeg \o PhShadowName \o suffix

(***************************************************************************)
(* JavaScript values: every value is a record tagged by t.                 *)
(***************************************************************************)
Undefined == [t |-> "undefined"]
JsNull == [t |-> "null"]
JsString(s) == [t |-> "string", s |-> s]
JsNumber(d) == [t |-> "number", digits |-> d]
JsObject(m) == [t |-> "object", members |-> m]
Member(k, v) == [k |-> k, v |-> v]

\* Reading a property of null or undefined throws a TypeError.
ThrowsOnRead(request) == request.t \in {"undefined", "null"}

\* request.<key>: the value of the last member named key, undefined if none.
GetProperty(request, key) ==
    LET m == request.members
        hits == {i \in 1..Len(m) : m[i].k = key}
    IN  IF hits = {} THEN Undefined
        ELSE m[CHOOSE i \in hits : \A j \in hits : j <= i].v

\* JsToString, applied by String.prototype.replace to its replaceValue.
JsToString(v) ==
    CASE v.t = "string" -> v.s
      [] v.t = "undefined" -> <<"u", "n", "d", "e", "f", "i", "n", "e", "d">>
      [] v.t = "null" -> <<"n", "u", "l", "l">>
      [] v.t = "number" -> v.digits
      [] OTHER -> <<"[", "o", "b", "j", "e", "c", "t", " ", "O", "b", "j", "e", "c", "t", "]">>

(***************************************************************************)
(* String.prototype.replace(searchString, replaceValue) with a string      *)
(* pattern: the first occurrence only, and the replacement text expanded   *)
(* by GetSubstitution ($$, $&, $ + backtick, $ + apostrophe; there are no  *)
(* captures, so $1..$99 and $< stay as written).                           *)
(***************************************************************************)
\* The grave accent U+0060, which a TLA+ string cannot hold.
Backtick == "U+0060"

StartsWithAt(s, pat, i) ==
    /\ i + Len(pat) - 1 <= Len(s)
    /\ \A k \in 1..Len(pat) : s[i + k - 1] = pat[k]

\* Position of the first occurrence of pat in s, 0 when there is none.
indexOf(s, pat) ==
    LET at == {i \in 1..Len(s) : StartsWithAt(s, pat, i)}
    IN  IF at = {} THEN 0 ELSE CHOOSE i \in at : \A j \in at : i <= j

DropFirst(s, n) == SubSeq(s, n + 1, Len(s))

RECURSIVE GetSubstitution(_, _, _, _)
GetSubstitution(matched, str, position, replacement) ==
    IF replacement = <<>> THEN <<>>
    ELSE IF replacement[1] = "$" /\ Len(replacement) >= 2
    THEN CASE replacement[2] = "$" ->
                <<"$">> \o GetSubstitution(matched, str, position, DropFirst(replacement, 2))
           [] replacement[2] = "&" ->
                matched \o GetSubstitution(matched, str, position, DropFirst(replacement, 2))
           [] replacement[2] = Backtick ->
                SubSeq(str, 1, position - 1)
                    \o GetSubstitution(matched, str, position, DropFirst(replacement, 2))
           [] replacement[2] = "'" ->
                SubSeq(str, position + Len(matched), Len(str))
                    \o GetSubstitution(matched, str, position, DropFirst(replacement, 2))
           [] OTHER ->
                <<"$">> \o GetSubstitution(matched, str, position, Tail(replacement))
    ELSE <<replacement[1]>> \o GetSubstitution(matched, str, position, Tail(replacement))

replace(str, searchString, replaceValue) ==
    LET position == indexOf(str, searchString)
    IN  IF position = 0 THEN str
        ELSE SubSeq(str, 1, position - 1)
                \o GetSubstitution(searchString, str, position, JsToString(replaceValue))
                \o SubSeq(str, position + Len(searchString), Len(str))

(***************************************************************************)
(* The operations of IotShadowClient: the topic template of each and the   *)
(* order in which it substitutes the placeholders.                         *)
(***************************************************************************)
ClassicSubscribeOps ==
    { "subscribeToUpdateShadowRejected", "subscribeToShadowDeltaUpdatedEvents",
      "subscribeToDeleteShadowAccepted", "subscribeToGetShadowAccepted",
      "subscribeToShadowUpdatedEvents", "subscribeToDeleteShadowRejected",
      "subscribeToGetShadowRejected", "subscribeToUpdateShadowAccepted" }

NamedSubscribeOps ==
    { "subscribeToGetNamedShadowRejected", "subscribeToDeleteNamedShadowRejected",
      "subscribeToGetNamedShadowAccepted", "subscribeToNamedShadowUpdatedEvents",
      "subscribeToDeleteNamedShadowAccepted", "subscribeToUpdateNamedShadowRejected",
      "subscribeToNamedShadowDeltaUpdatedEvents", "subscribeToUpdateNamedShadowAccepted" }

ClassicPublishOps == {"publishDeleteShadow", "publishUpdateShadow", "publishGetShadow"}

NamedPublishOps ==
    {"publishGetNamedShadow", "publishDeleteNamedShadow", "publishUpdateNamedShadow"}

SubscribeOps == ClassicSubscribeOps \cup NamedSubscribeOps
PublishOps == ClassicPublishOps \cup NamedPublishOps
NamedOps == NamedSubscribeOps \cup NamedPublishOps
Ops == SubscribeOps \cup PublishOps

\* The string literal each operation assigns to topic.
Template(op) ==
    CASE op = "subscribeToUpdateShadowRejected" -> ClassicTemplate(UpdateSeg \o RejectedSeg)
      [] op = "subscribeToShadowDeltaUpdatedEvents" -> ClassicTemplate(UpdateSeg \o DeltaSeg)
      [] op = "subscribeToGetNamedShadowRejected" -> NamedTemplate(GetSeg \o RejectedSeg)
      [] op = "subscribeToDeleteNamedShadowRejected" -> NamedTemplate(DeleteSeg \o RejectedSeg)
      [] op = "publishDeleteShadow" -> ClassicTemplate(DeleteSeg)
      [] op = "publishGetNamedShadow" -> NamedTemplate(GetSeg)
      [] op = "subscribeToDeleteShadowAccepted" -> ClassicTemplate(DeleteSeg \o AcceptedSeg)
      [] op = "subscribeToGetShadowAccepted" -> ClassicTemplate(GetSeg \o AcceptedSeg)
      [] op = "subscribeToGetNamedShadowAccepted" -> NamedTemplate(GetSeg \o AcceptedSeg)
      [] op = "subscribeToNamedShadowUpdatedEvents" -> NamedTemplate(UpdateSeg \o DocumentsSeg)
      [] op = "subscribeToShadowUpdatedEvents" -> ClassicTemplate(UpdateSeg \o DocumentsSeg)
      [] op = "publishDeleteNamedShadow" -> NamedTemplate(DeleteSeg)
      [] op = "subscribeToDeleteNamedShadowAccepted" -> NamedTemplate(DeleteSeg \o AcceptedSeg)
      [] op = "subscribeToDeleteShadowRejected" -> ClassicTemplate(DeleteSeg \o RejectedSeg)
      [] op = "subscribeToGetShadowRejected" -> ClassicTemplate(GetSeg \o RejectedSeg)
      [] op = "publishUpdateShadow" -> ClassicTemplate(UpdateSeg)
      [] op = "publishGetShadow" -> ClassicTemplate(GetSeg)
      [] op = "subscribeToUpdateShadowAccepted" -> ClassicTemplate(UpdateSeg \o AcceptedSeg)
      [] op = "subscribeToUpdateNamedShadowRejected" -> NamedTemplate(UpdateSeg \o RejectedSeg)
      [] op = "publishUpdateNamedShadow" -> NamedTemplate(UpdateSeg)
      [] op = "subscribeToNamedShadowDeltaUpdatedEvents" -> NamedTemplate(UpdateSeg \o DeltaSeg)
      [] op = "subscribeToUpdateNamedShadowAccepted" -> NamedTemplate(UpdateSeg \o AcceptedSeg)

\* The operations that replace {shadowName} before {thingName}: the three
\* named publishes and subscribeToNamedShadowUpdatedEvents.
ShadowNameFirstOps == NamedPublishOps \cup {"subscribeToNamedShadowUpdatedEvents"}

\* The topic = topic.replace(...) statements of an operation, in order.
RenderTopic(op, request) ==
    LET thingName == GetProperty(request, KeyThingName)
        shadowName == GetProperty(request, KeyShadowName)
    IN  IF op \notin NamedOps
        THEN replace(Template(op), PhThingName, thingName)
        ELSE IF op \in ShadowNameFirstOps
        THEN replace(replace(Template(op), PhShadowName, shadowName), PhThingName, thingName)
        ELSE replace(replace(Template(op), PhThingName, thingName), PhShadowName, shadowName)

(***************************************************************************)
(* TextDecoder('utf-8').decode(payload).  The decoder is built without     *)
(* {fatal: true}: a malformed sequence never throws, it decodes to U+FFFD. *)
(* Bytes: ASCII bytes are their character; Lead2 are lead bytes of a       *)
(* two-byte sequence, Continuation are continuation bytes, and NeverValid  *)
(* are bytes no UTF-8 sequence holds.                                      *)
(***************************************************************************)
Lead2 == {"xC3"}
Continuation == {"xA9"}
NeverValid == {"xFF"}
ReplacementChar == "U+FFFD"

\* The code point of a two-byte sequence (C3 A9 is U+00E9).
CodePoint2(lead, cont) == "U+00E9"

RECURSIVE decode(_)
decode(bytes) ==
    IF bytes = <<>> THEN <<>>
    ELSE IF bytes[1] \in Lead2
    THEN IF Len(bytes) >= 2 /\ bytes[2] \in Continuation
         THEN <<CodePoint2(bytes[1], bytes[2])>> \o decode(DropFirst(bytes, 2))
         ELSE <<ReplacementChar>> \o decode(Tail(bytes))
    ELSE IF bytes[1] \in Continuation \cup NeverValid
    THEN <<ReplacementChar>> \o decode(Tail(bytes))
    ELSE <<bytes[1]>> \o decode(Tail(bytes))

\* The UTF-8 encoding connection.publish gives a payload passed as a string.
RECURSIVE encode(_)
encode(text) ==
    IF text = <<>> THEN <<>>
    ELSE (IF text[1] = "U+00E9" THEN <<"xC3", "xA9">> ELSE <<text[1]>>)
            \o encode(Tail(text))

(***************************************************************************)
(* JSON.parse(text), for texts of objects, strings, numbers without sign,  *)
(* fraction or exponent, and the literals null, true and false (no array). *)
(* A result is [ok, val, rest]; ok = FALSE stands for the SyntaxError.     *)
(***************************************************************************)
JsBool(b) == [t |-> "boolean", b |-> b]
JsBigInt(d) == [t |-> "bigint", digits |-> d]
Digits == {"0", "1", "2", "3", "4", "5", "6", "7", "8", "9"}
ControlChars == {"\n", "\t", "\r"}
ParseFail == [ok |-> FALSE, val |-> Undefined, rest |-> <<>>]
ParseOk(v, rest) == [ok |-> TRUE, val |-> v, rest |-> rest]

RECURSIVE SkipWs(_)
SkipWs(text) ==
    IF text # <<>> /\ text[1] \in {" "} \cup ControlChars THEN SkipWs(Tail(text)) ELSE text

\* An object keeps one member per key: a repeated key overwrites the value.
SetMember(m, k, v) ==
    IF \E i \in 1..Len(m) : m[i].k = k
    THEN [i \in 1..Len(m) |-> IF m[i].k = k THEN Member(k, v) ELSE m[i]]
    ELSE Append(m, Member(k, v))

\* The characters after an opening quote, up to the closing one.
RECURSIVE ScanString(_, _)
ScanString(text, acc) ==
    IF text = <<>> THEN ParseFail
    ELSE IF text[1] = "\"" THEN ParseOk(JsString(acc), Tail(text))
    ELSE IF text[1] = "\\"
    THEN IF Len(text) >= 2 /\ text[2] \in {"\"", "\\", "/"}
         THEN ScanString(DropFirst(text, 2), Append(acc, text[2]))
         ELSE ParseFail
    ELSE IF text[1] \in ControlChars THEN ParseFail
    ELSE ScanString(Tail(text), Append(acc, text[1]))

RECURSIVE ScanDigits(_, _)
ScanDigits(text, acc) ==
    IF text # <<>> /\ text[1] \in Digits
    THEN ScanDigits(Tail(text), Append(acc, text[1]))
    ELSE ParseOk(JsNumber(acc), text)

RECURSIVE ParseValue(_), ParseMembers(_, _)
ParseValue(text0) ==
    LET text == SkipWs(text0)
    IN  IF text = <<>> THEN ParseFail
        ELSE IF text[1] = "\"" THEN ScanString(Tail(text), <<>>)
        ELSE IF text[1] = "{"
        THEN LET inner == SkipWs(Tail(text))
             IN  IF inner # <<>> /\ inner[1] = "}"
                 THEN ParseOk(JsObject(<<>>), Tail(inner))
                 ELSE ParseMembers(inner, <<>>)
        ELSE IF StartsWithAt(text, <<"n", "u", "l", "l">>, 1)
        THEN ParseOk(JsNull, DropFirst(text, 4))
        ELSE IF StartsWithAt(text, <<"t", "r", "u", "e">>, 1)
        THEN ParseOk(JsBool(TRUE), DropFirst(text, 4))
        ELSE IF StartsWithAt(text, <<"f", "a", "l", "s", "e">>, 1)
        THEN ParseOk(JsBool(FALSE), DropFirst(text, 5))
        ELSE IF text[1] = "0" THEN ParseOk(JsNumber(<<"0">>), Tail(text))
        ELSE IF text[1] \in Digits THEN ScanDigits(text, <<>>)
        ELSE ParseFail

ParseMembers(text, acc) ==
    IF text = <<>> \/ text[1] # "\"" THEN ParseFail
    ELSE LET key == ScanString(Tail(text), <<>>)
             colon == SkipWs(key.rest)
             value == ParseValue(Tail(colon))
             after == SkipWs(value.rest)
             members == SetMember(acc, key.val.s, value.val)
         IN  IF ~key.ok \/ colon = <<>> \/ colon[1] # ":" THEN ParseFail
             ELSE IF ~value.ok \/ after = <<>> THEN ParseFail
             ELSE IF after[1] = "}" THEN ParseOk(JsObject(members), Tail(after))
             ELSE IF after[1] = "," THEN ParseMembers(SkipWs(Tail(after)), members)
             ELSE ParseFail

JSON_parse(text) ==
    LET r == ParseValue(text)
    IN  IF r.ok /\ SkipWs(r.rest) = <<>> THEN ParseOk(r.val, <<>>) ELSE ParseFail

(***************************************************************************)
(* JSON.stringify(value): a member whose value is undefined is left out.   *)
(***************************************************************************)
\* A string member written between quotes as it is, with nothing escaped.
Quote_unescaped(chars) == chars

RECURSIVE Quote(_)
Quote(chars) ==
    IF chars = <<>> THEN <<>>
    ELSE (IF chars[1] \in {"\"", "\\"} THEN <<"\\", chars[1]>> ELSE <<chars[1]>>)
            \o Quote(Tail(chars))

\* JSON.stringify throws a TypeError on a BigInt value.
RECURSIVE StringifyThrows(_)
StringifyThrows(value) ==
    \/ value.t = "bigint"
    \/ /\ value.t = "object"
       /\ \E k \in 1..Len(value.members) : StringifyThrows(value.members[k].v)

RECURSIVE JSON_stringify(_), StringifyMembers(_, _)
JSON_stringify(value) ==
    CASE value.t = "string" -> <<"\"">> \o Quote(value.s) \o <<"\"">>
      [] value.t = "number" -> value.digits
      [] value.t = "null" -> <<"n", "u", "l", "l">>
      [] value.t = "boolean" ->
            IF value.b THEN <<"t", "r", "u", "e">> ELSE <<"f", "a", "l", "s", "e">>
      [] value.t = "object" -> <<"{">> \o StringifyMembers(value.members, TRUE) \o <<"}">>

StringifyMembers(m, first) ==
    IF m = <<>> THEN <<>>
    ELSE IF m[1].v.t = "undefined" THEN StringifyMembers(Tail(m), first)
    ELSE (IF first THEN <<>> ELSE <<",">>)
            \o <<"\"">> \o Quote(m[1].k) \o <<"\"", ":">> \o JSON_stringify(m[1].v)
            \o StringifyMembers(Tail(m), FALSE)

(***************************************************************************)
(* Inputs.                                                                 *)
(***************************************************************************)
Req(thingName, shadowName) ==
    JsObject(<<Member(KeyThingName, JsString(thingName)),
               Member(KeyShadowName, JsString(shadowName))>>)

\* Requests a caller passes: a classic request (no shadowName), a named one,
\* one whose thingName is the two characters $ and &, null, and one whose
\* version is the BigInt 1n.
Requests ==
    { JsObject(<<Member(KeyThingName, JsString(<<"l", "a", "m", "p", "1">>))>>),
      Req(<<"l", "a", "m", "p", "1">>, <<"m", "a", "i", "n">>),
      Req(<<"$", "&">>, <<"m", "a", "i", "n">>),
      JsNull,
      JsObject(<<Member(KeyThingName, JsString(<<"l", "a", "m", "p", "1">>)),
                 Member(KeyShadowName, JsString(<<"m", "a", "i", "n">>)),
                 Member(<<"v", "e", "r", "s", "i", "o", "n">>, JsBigInt(<<"1">>))>>) }

\* mqtt.QoS: AtMostOnce, AtLeastOnce, ExactlyOnce.
QoS == {0, 1, 2}

\* An ErrorResponse of the service: {"code":404,"message":m}, where m is the
\* three characters U+00E9, quotation mark, backslash.
ErrorBody ==
    JsObject(<<Member(<<"c", "o", "d", "e">>, JsNumber(<<"4", "0", "4">>)),
               Member(<<"m", "e", "s", "s", "a", "g", "e">>,
                      JsString(<<"U+00E9", "\"", "\\">>))>>)

\* Inbound payloads: {}, null, an unterminated object, a string holding the
\* byte FF, the lone byte FF, and the serialized ErrorResponse.
Payloads ==
    { <<"{", "}">>,
      <<"n", "u", "l", "l">>,
      <<"{">>,
      <<"\"", "xFF", "\"">>,
      <<"xFF">>,
      encode(JSON_stringify(ErrorBody)) }

\* What the caller's messageHandler does when invoked.
HandlerOutcomes == {"returns", "throws"}

(***************************************************************************)
(* State.                                                                  *)
(*   calls          one record per call of an operation, in call order:    *)
(*                  what was handed to the connection, the state of the    *)
(*                  request at the transport and of the returned Promise   *)
(*   deliveries     the inbound messages the transport has passed to an    *)
(*                  on_message adapter, in order                           *)
(*   invocations    the invocations of messageHandler, in order            *)
(*   dispatchFaults the deliveries whose adapter threw into the transport  *)
(*   outbound       the calls of connection.subscribe and                  *)
(*                  connection.publish, in order, with their arguments     *)
(*   online         whether the connection is up                           *)
(*   connections    the connections build_connection_from_cli_args has     *)
(*                  built, in order, each with the argv it was built from  *)
(*   options        the options registered on the yargs instance           *)
(***************************************************************************)
Init ==
    /\ calls = <<>>
    /\ deliveries = <<>>
    /\ invocations = <<>>
    /\ dispatchFaults = <<>>
    /\ outbound = <<>>
    /\ online = TRUE
    /\ connections = <<>>
    /\ options = {}

\* The constructor not keeping the payload it is passed.
IotShadowError_without_payload(message, payload) ==
    [t |-> "IotShadowError", message |-> message, payload |-> <<>>]

\* new IotShadowError(message, payload)
IotShadowError(message, payload) ==
    [t |-> "IotShadowError", message |-> message, payload |-> payload]

\* The message of the SyntaxError JSON.parse throws.
SyntaxErrorMessage == "SyntaxError"

\* The operation not declared async: the exception reaches the caller.
ThrownCall_synchronous(op, kind, request, qos) ==
    [op |-> op, kind |-> kind, request |-> request, topic |-> <<>>, payload |-> <<>>,
     qos |-> qos, state |-> "NotSent", future |-> "thrown"]

\* The adapter registered with the connection before the request is read.
ThrownCall_registered(op, kind, request, qos) ==
    [op |-> op, kind |-> kind, request |-> request, topic |-> <<>>, payload |-> <<>>,
     qos |-> qos, state |-> "Requested", future |-> "rejected"]

\* A call that threw before the connection was reached (the request cannot
\* be read, or JSON.stringify threw): the async function's Promise is
\* rejected with the exception.
ThrownCall(op, kind, request, qos) ==
    [op |-> op, kind |-> kind, request |-> request, topic |-> <<>>, payload |-> <<>>,
     qos |-> qos, state |-> "NotSent", future |-> "rejected"]

\* The hand-over failing the call when the connection is offline.
SentCall_failing_offline(op, kind, request, qos, topic, payload) ==
    [op |-> op, kind |-> kind, request |-> request, topic |-> topic, payload |-> payload,
     qos |-> qos, state |-> IF online THEN "Requested" ELSE "Failed",
     future |-> IF online THEN "pending" ELSE "rejected"]

\* A call that reached connection.subscribe or connection.publish: the
\* packet is sent, or queued while the connection is offline.
SentCall(op, kind, request, qos, topic, payload) ==
    [op |-> op, kind |-> kind, request |-> request, topic |-> topic, payload |-> payload,
     qos |-> qos, state |-> IF online THEN "Requested" ELSE "Queued",
     future |-> "pending"]

\* A call whose connection.subscribe or connection.publish threw: the async
\* function's Promise is rejected with the exception.
RefusedCall(op, kind, request, qos, topic, payload) ==
    [op |-> op, kind |-> kind, request |-> request, topic |-> topic, payload |-> payload,
     qos |-> qos, state |-> "Failed", future |-> "rejected"]

\* The arguments of one call of connection.subscribe or connection.publish,
\* made by call number call.
Outbound(method, call, topic, payload, qos) ==
    [method |-> method, call |-> call, topic |-> topic, payload |-> payload, qos |-> qos]

\* What the connection does with a call of subscribe or publish.
TransportOutcomes == {"accepts", "throws"}

\* The subscribe body with the qos capped at AtLeastOnce before the
\* hand-over.
subscribeWith_capping_qos(op, requests, qoss, outcomes, maxCalls) ==
    /\ Len(calls) < maxCalls
    /\ \E request \in requests, qos \in qoss, outcome \in outcomes :
          /\ outcome = "accepts"
          /\ ~ThrowsOnRead(request)
          /\ calls' = Append(calls,
                 SentCall(op, "subscribe", request, qos, RenderTopic(op, request), <<>>))
          /\ outbound' = Append(outbound,
                 Outbound("subscribe", Len(calls) + 1, RenderTopic(op, request), <<>>,
                          IF qos > 1 THEN 1 ELSE qos))
    /\ UNCHANGED <<deliveries, invocations, dispatchFaults, online, cli>>

\* The subscribe body opening the connection itself before it subscribes.
subscribeWith_connecting(op, requests, qoss, outcomes, maxCalls) ==
    /\ Len(calls) < maxCalls
    /\ \E request \in requests, qos \in qoss, outcome \in outcomes :
          /\ outcome = "accepts"
          /\ ~ThrowsOnRead(request)
          /\ calls' = Append(calls,
                 [SentCall(op, "subscribe", request, qos, RenderTopic(op, request), <<>>)
                      EXCEPT !.state = "Requested"])
          /\ outbound' = outbound
                 \o <<Outbound("connect", Len(calls) + 1, <<>>, <<>>, qos),
                      Outbound("subscribe", Len(calls) + 1, RenderTopic(op, request),
                               <<>>, qos)>>
    /\ online' = TRUE
    /\ UNCHANGED <<deliveries, invocations, dispatchFaults, cli>>

\* The body shared by the sixteen subscribe operations, for a caller drawing
\* its arguments from requests and qoss and a connection answering with one
\* of outcomes.
subscribeWith(op, requests, qoss, outcomes, maxCalls) ==
    /\ Len(calls) < maxCalls
    /\ \E request \in requests, qos \in qoss, outcome \in outcomes :
          IF ThrowsOnRead(request)
          THEN /\ outcome = "accepts"
               /\ calls' = Append(calls, ThrownCall(op, "subscribe", request, qos))
               /\ outbound' = outbound
          ELSE LET topic == RenderTopic(op, request)
               IN  /\ calls' = Append(calls,
                          IF outcome = "throws"
                          THEN RefusedCall(op, "subscribe", request, qos, topic, <<>>)
                          ELSE SentCall(op, "subscribe", request, qos, topic, <<>>))
                   /\ outbound' = Append(outbound,
                          Outbound("subscribe", Len(calls) + 1, topic, <<>>, qos))
    /\ UNCHANGED <<deliveries, invocations, dispatchFaults, online, cli>>

\* The publish body with the qos capped at AtLeastOnce before the hand-over.
publishWith_capping_qos(op, requests, qoss, outcomes, maxCalls) ==
    /\ Len(calls) < maxCalls
    /\ \E request \in requests, qos \in qoss, outcome \in outcomes :
          /\ outcome = "accepts"
          /\ ~ThrowsOnRead(request) /\ ~StringifyThrows(request)
          /\ calls' = Append(calls,
                 SentCall(op, "publish", request, qos,
                          RenderTopic(op, request), JSON_stringify(request)))
          /\ outbound' = Append(outbound,
                 Outbound("publish", Len(calls) + 1, RenderTopic(op, request),
                          JSON_stringify(request), IF qos > 1 THEN 1 ELSE qos))
    /\ UNCHANGED <<deliveries, invocations, dispatchFaults, online, cli>>

\* The publish body subscribing to the operation's response topic before it
\* publishes.
publishWith_subscribing(op, requests, qoss, outcomes, maxCalls) ==
    /\ Len(calls) < maxCalls
    /\ \E request \in requests, qos \in qoss, outcome \in outcomes :
          /\ outcome = "accepts"
          /\ ~ThrowsOnRead(request) /\ ~StringifyThrows(request)
          /\ calls' = Append(calls,
                 SentCall(op, "publish", request, qos,
                          RenderTopic(op, request), JSON_stringify(request)))
          /\ outbound' = outbound
                 \o <<Outbound("subscribe", Len(calls) + 1,
                               RenderTopic(op, request) \o AcceptedSeg, <<>>, qos),
                      Outbound("publish", Len(calls) + 1, RenderTopic(op, request),
                               JSON_stringify(request), qos)>>
    /\ UNCHANGED <<deliveries, invocations, dispatchFaults, online, cli>>

\* The body shared by the six publish operations.
publishWith(op, requests, qoss, outcomes, maxCalls) ==
    /\ Len(calls) < maxCalls
    /\ \E request \in requests, qos \in qoss, outcome \in outcomes :
          IF ThrowsOnRead(request) \/ StringifyThrows(request)
          THEN /\ outcome = "accepts"
               /\ calls' = Append(calls, ThrownCall(op, "publish", request, qos))
               /\ outbound' = outbound
          ELSE LET topic == RenderTopic(op, request)
                   payload == JSON_stringify(request)
               IN  /\ calls' = Append(calls,
                          IF outcome = "throws"
                          THEN RefusedCall(op, "publish", request, qos, topic, payload)
                          ELSE SentCall(op, "publish", request, qos, topic, payload))
                   /\ outbound' = Append(outbound,
                          Outbound("publish", Len(calls) + 1, topic, payload, qos))
    /\ UNCHANGED <<deliveries, invocations, dispatchFaults, online, cli>>

subscribe(op) == subscribeWith(op, Requests, QoS, TransportOutcomes, MaxCalls)

publish(op) == publishWith(op, Requests, QoS, TransportOutcomes, MaxCalls)

subscribeToUpdateShadowRejected == subscribe("subscribeToUpdateShadowRejected")
subscribeToShadowDeltaUpdatedEvents == subscribe("subscribeToShadowDeltaUpdatedEvents")
subscribeToGetNamedShadowRejected == subscribe("subscribeToGetNamedShadowRejected")
subscribeToDeleteNamedShadowRejected == subscribe("subscribeToDeleteNamedShadowRejected")
publishDeleteShadow == publish("publishDeleteShadow")
publishGetNamedShadow == publish("publishGetNamedShadow")
subscribeToDeleteShadowAccepted == subscribe("subscribeToDeleteShadowAccepted")
subscribeToGetShadowAccepted == subscribe("subscribeToGetShadowAccepted")
subscribeToGetNamedShadowAccepted == subscribe("subscribeToGetNamedShadowAccepted")
subscribeToNamedShadowUpdatedEvents == subscribe("subscribeToNamedShadowUpdatedEvents")
subscribeToShadowUpdatedEvents == subscribe("subscribeToShadowUpdatedEvents")
publishDeleteNamedShadow == publish("publishDeleteNamedShadow")
subscribeToDeleteNamedShadowAccepted == subscribe("subscribeToDeleteNamedShadowAccepted")
subscribeToDeleteShadowRejected == subscribe("subscribeToDeleteShadowRejected")
subscribeToGetShadowRejected == subscribe("subscribeToGetShadowRejected")
publishUpdateShadow == publish("publishUpdateShadow")
publishGetShadow == publish("publishGetShadow")
subscribeToUpdateShadowAccepted == subscribe("subscribeToUpdateShadowAccepted")
subscribeToUpdateNamedShadowRejected == subscribe("subscribeToUpdateNamedShadowRejected")
publishUpdateNamedShadow == publish("publishUpdateNamedShadow")
subscribeToNamedShadowDeltaUpdatedEvents == subscribe("subscribeToNamedShadowDeltaUpdatedEvents")
subscribeToUpdateNamedShadowAccepted == subscribe("subscribeToUpdateNamedShadowAccepted")

(***************************************************************************)
(* Variants of the adapter and of the Promise hand-over with a defect      *)
(* seeded, used to show that the properties below depend on the code.      *)
(***************************************************************************)
Invocation(sub, payload) ==
    LET parsed == JSON_parse(decode(payload))
    IN  [sub |-> sub, delivery |-> Len(deliveries) + 1,
         error |-> IF parsed.ok THEN Undefined
                   ELSE IotShadowError(SyntaxErrorMessage, payload),
         response |-> IF parsed.ok THEN parsed.val ELSE Undefined]

Faults(handlerOutcome) ==
    IF handlerOutcome = "throws"
    THEN Append(dispatchFaults, Len(deliveries) + 1)
    ELSE dispatchFaults

\* The subscribe operations on a rejected topic: their responses are
\* model.ErrorResponse.
RejectedOps ==
    { "subscribeToUpdateShadowRejected", "subscribeToGetNamedShadowRejected",
      "subscribeToDeleteNamedShadowRejected", "subscribeToDeleteShadowRejected",
      "subscribeToGetShadowRejected", "subscribeToUpdateNamedShadowRejected" }

\* On a rejected topic the adapter raises the service's error as an
\* IotShadowError instead of handing it over as the response.
on_message_raising_service_error(sub, payload, handlerOutcome) ==
    /\ invocations' = Append(invocations,
            IF calls[sub].op \in RejectedOps
            THEN [Invocation(sub, payload) EXCEPT
                     !.error = IotShadowError(SyntaxErrorMessage, payload),
                     !.response = Undefined]
            ELSE Invocation(sub, payload))
    /\ dispatchFaults' = Faults(handlerOutcome)
    /\ UNCHANGED calls

\* The adapter holds a message back until the next one has been handled: the
\* handler sees the newest message first.
on_message_newest_first(sub, payload, handlerOutcome) ==
    /\ invocations' = <<Invocation(sub, payload)>> \o invocations
    /\ dispatchFaults' = Faults(handlerOutcome)
    /\ UNCHANGED calls

\* A decode failure is reported to the handler of every subscription.
on_message_broadcasting_error(sub, payload, handlerOutcome) ==
    /\ invocations' = IF Invocation(sub, payload).error = Undefined
                      THEN Append(invocations, Invocation(sub, payload))
                      ELSE invocations
                            \o [i \in 1..Len(calls) |-> [Invocation(sub, payload) EXCEPT !.sub = i]]
    /\ dispatchFaults' = Faults(handlerOutcome)
    /\ UNCHANGED calls

\* messageHandler called in the catch block as well as in the finally block.
on_message_handler_in_catch(sub, payload, handlerOutcome) ==
    /\ invocations' = invocations
            \o (IF Invocation(sub, payload).error # Undefined
                THEN <<Invocation(sub, payload)>> ELSE <<>>)
            \o <<Invocation(sub, payload)>>
    /\ dispatchFaults' = Faults(handlerOutcome)
    /\ UNCHANGED calls

\* An empty catch block: the error is never built.
on_message_error_dropped(sub, payload, handlerOutcome) ==
    /\ invocations' = Append(invocations, [Invocation(sub, payload) EXCEPT !.error = Undefined])
    /\ dispatchFaults' = Faults(handlerOutcome)
    /\ UNCHANGED calls

\* A decode failure fails the subscribe call's Promise.
on_message_rejecting_future(sub, payload, handlerOutcome) ==
    /\ invocations' = Append(invocations, Invocation(sub, payload))
    /\ dispatchFaults' = Faults(handlerOutcome)
    /\ calls' = IF Invocation(sub, payload).error # Undefined
                THEN [calls EXCEPT ![sub].future = "rejected"]
                ELSE calls

\* The adapter drops what arrives before the SUBACK.
on_message_after_suback(sub, payload, handlerOutcome) ==
    /\ invocations' = IF calls[sub].state = "Acknowledged"
                      THEN Append(invocations, Invocation(sub, payload))
                      ELSE invocations
    /\ dispatchFaults' = IF calls[sub].state = "Acknowledged"
                         THEN Faults(handlerOutcome) ELSE dispatchFaults
    /\ UNCHANGED calls

\* A decode failure unsubscribes the topic.
on_message_unsubscribing(sub, payload, handlerOutcome) ==
    /\ invocations' = Append(invocations, Invocation(sub, payload))
    /\ dispatchFaults' = Faults(handlerOutcome)
    /\ calls' = IF Invocation(sub, payload).error # Undefined
                THEN [calls EXCEPT ![sub].state = "Unsubscribed"]
                ELSE calls

\* The operation does not return the connection's Promise: its own Promise
\* resolves although no SUBACK has been received.
SettleFuture_without_return ==
    /\ \E i \in 1..Len(calls) :
          /\ calls[i].future = "pending"
          /\ calls[i].state \in {"Requested", "Acknowledged", "Failed"}
          /\ calls' = [calls EXCEPT ![i].future = "resolved"]
    /\ UNCHANGED <<deliveries, invocations, dispatchFaults, outbound, online, cli>>

\* The Promise of a publish resolves as soon as the packet is sent, whatever
\* the QoS.
SettleFuture_on_send ==
    /\ \E i \in 1..Len(calls) :
          /\ calls[i].future = "pending"
          /\ calls[i].state \in {"Requested", "Acknowledged", "Failed"}
          /\ calls[i].kind = "subscribe" => calls[i].state # "Requested"
          /\ calls' = [calls EXCEPT ![i].future =
                          IF calls[i].state = "Failed" THEN "rejected" ELSE "resolved"]
    /\ UNCHANGED <<deliveries, invocations, dispatchFaults, outbound, online, cli>>

(***************************************************************************)
(* The adapter each subscribe operation registers with the connection.     *)
(* try { decode; JSON.parse } catch { error = new IotShadowError }         *)
(* finally { messageHandler(error, response) }: the handler runs in the    *)
(* finally block, outside any catch, so what it throws leaves on_message.  *)
(***************************************************************************)
on_message(sub, payload, handlerOutcome) ==
    LET parsed == JSON_parse(decode(payload))
        response == IF parsed.ok THEN parsed.val ELSE Undefined
        error == IF parsed.ok THEN Undefined
                 ELSE IotShadowError(SyntaxErrorMessage, payload)
        delivery == Len(deliveries) + 1
    IN  /\ invocations' = Append(invocations,
                             [sub |-> sub, delivery |-> delivery,
                              error |-> error, response |-> response])
        /\ dispatchFaults' = IF handlerOutcome = "throws"
                             THEN Append(dispatchFaults, delivery)
                             ELSE dispatchFaults
        /\ UNCHANGED calls

(***************************************************************************)
(* The connection (aws-crt, outside this repository), as the operations'   *)
(* documentation states it.  A request is Queued while the connection is   *)
(* offline, Requested once its packet is sent, Acknowledged on the SUBACK  *)
(* or PUBACK, Failed when the connection reports or throws a failure.      *)
(***************************************************************************)
\* The connection's Promise is fulfilled: on the SUBACK for a subscribe, as
\* soon as the packet is sent for a publish at QoS 0, on the PUBACK for a
\* publish at QoS 1.
Completed(call) ==
    \/ call.state = "Acknowledged"
    \/ call.kind = "publish" /\ call.qos = 0 /\ call.state = "Requested"

\* A message matching the topic arrives; it may arrive before the SUBACK.
DeliverWith(payloads, handlerOutcomes, maxDeliveries) ==
    /\ online
    /\ Len(deliveries) < maxDeliveries
    /\ \E sub \in 1..Len(calls), payload \in payloads, handlerOutcome \in handlerOutcomes :
          /\ calls[sub].kind = "subscribe"
          /\ calls[sub].state \in {"Requested", "Acknowledged"}
          /\ deliveries' = Append(deliveries, [sub |-> sub, payload |-> payload])
          /\ on_message(sub, payload, handlerOutcome)
    /\ UNCHANGED <<outbound, online, cli>>

Deliver == DeliverWith(Payloads, HandlerOutcomes, MaxDeliveries)

\* The SUBACK is returned from the server; the server may grant a lower QoS
\* than the one requested.
Suback ==
    /\ online
    /\ \E i \in 1..Len(calls) :
          /\ calls[i].kind = "subscribe"
          /\ calls[i].state = "Requested"
          /\ calls' = [calls EXCEPT ![i].state = "Acknowledged"]
    /\ UNCHANGED <<deliveries, invocations, dispatchFaults, outbound, online, cli>>

\* The SUBSCRIBE fails at the transport.
SubscribeFailed ==
    /\ \E i \in 1..Len(calls) :
          /\ calls[i].kind = "subscribe"
          /\ calls[i].state \in {"Queued", "Requested"}
          /\ calls' = [calls EXCEPT ![i].state = "Failed"]
    /\ UNCHANGED <<deliveries, invocations, dispatchFaults, outbound, online, cli>>

\* The PUBACK for a PUBLISH at QoS 1 is received.  QoS 2 is not supported by
\* AWS IoT: no acknowledgment completes a PUBLISH at QoS 2.
Puback ==
    /\ online
    /\ \E i \in 1..Len(calls) :
          /\ calls[i].kind = "publish"
          /\ calls[i].qos = 1
          /\ calls[i].state = "Requested"
          /\ calls' = [calls EXCEPT ![i].state = "Acknowledged"]
    /\ UNCHANGED <<deliveries, invocations, dispatchFaults, outbound, online, cli>>

\* The PUBLISH fails at the transport before it has completed.
PublishFailed ==
    /\ \E i \in 1..Len(calls) :
          /\ calls[i].kind = "publish"
          /\ calls[i].state \in {"Queued", "Requested"}
          /\ ~Completed(calls[i])
          /\ calls' = [calls EXCEPT ![i].state = "Failed"]
    /\ UNCHANGED <<deliveries, invocations, dispatchFaults, outbound, online, cli>>

\* The connection drops.
Disconnect ==
    /\ online
    /\ online' = FALSE
    /\ UNCHANGED <<calls, deliveries, invocations, dispatchFaults, outbound, cli>>

\* The connection resumes.
Reconnect ==
    /\ ~online
    /\ online' = TRUE
    /\ UNCHANGED <<calls, deliveries, invocations, dispatchFaults, outbound, cli>>

\* Once the connection has resumed, a queued SUBSCRIBE or PUBLISH is sent.
SendQueued ==
    /\ online
    /\ \E i \in 1..Len(calls) :
          /\ calls[i].state = "Queued"
          /\ calls' = [calls EXCEPT ![i].state = "Requested"]
    /\ UNCHANGED <<deliveries, invocations, dispatchFaults, outbound, online, cli>>

\* return this.connection.subscribe(...) / publish(...) in an async function:
\* the returned Promise settles as the connection's Promise has settled.
SettleFuture ==
    /\ \E i \in 1..Len(calls) :
          /\ calls[i].future = "pending"
          /\ Completed(calls[i]) \/ calls[i].state = "Failed"
          /\ calls' = [calls EXCEPT ![i].future =
                          IF Completed(calls[i]) THEN "resolved" ELSE "rejected"]
    /\ UNCHANGED <<deliveries, invocations, dispatchFaults, outbound, online, cli>>

Next ==
    \/ subscribeToUpdateShadowRejected
    \/ subscribeToShadowDeltaUpdatedEvents
    \/ subscribeToGetNamedShadowRejected
    \/ subscribeToDeleteNamedShadowRejected
    \/ publishDeleteShadow
    \/ publishGetNamedShadow
    \/ subscribeToDeleteShadowAccepted
    \/ subscribeToGetShadowAccepted
    \/ subscribeToGetNamedShadowAccepted
    \/ subscribeToNamedShadowUpdatedEvents
    \/ subscribeToShadowUpdatedEvents
    \/ publishDeleteNamedShadow
    \/ subscribeToDeleteNamedShadowAccepted
    \/ subscribeToDeleteShadowRejected
    \/ subscribeToGetShadowRejected
    \/ publishUpdateShadow
    \/ publishGetShadow
    \/ subscribeToUpdateShadowAccepted
    \/ subscribeToUpdateNamedShadowRejected
    \/ publishUpdateNamedShadow
    \/ subscribeToNamedShadowDeltaUpdatedEvents
    \/ subscribeToUpdateNamedShadowAccepted
    \/ Deliver
    \/ Suback
    \/ SubscribeFailed
    \/ Puback
    \/ PublishFailed
    \/ SettleFuture

Spec == Init /\ [][Next]_vars

(***************************************************************************)
(* A session of two calls over a connection that drops and resumes, with   *)
(* a server that grants every request: the caller passes one named-shadow  *)
(* request at QoS 0 or 1 to a get or update operation.                     *)
(***************************************************************************)
MaxSessionCalls == 2
MaxSessionDeliveries == 2

SessionRequests == {Req(<<"l", "a", "m", "p", "1">>, <<"m", "a", "i", "n">>)}
SessionQoS == {0, 1}
SessionPayloads == {<<"{", "}">>, <<"{">>}
SessionSubscribeOps == {"subscribeToGetShadowAccepted", "subscribeToUpdateNamedShadowRejected"}
SessionPublishOps == {"publishGetShadow", "publishUpdateNamedShadow"}

SessionSubscribe ==
    \E op \in SessionSubscribeOps :
        subscribeWith(op, SessionRequests, SessionQoS, {"accepts"}, MaxSessionCalls)

SessionPublish ==
    \E op \in SessionPublishOps :
        publishWith(op, SessionRequests, SessionQoS, {"accepts"}, MaxSessionCalls)

SessionDeliver == DeliverWith(SessionPayloads, HandlerOutcomes, MaxSessionDeliveries)

SessionNext ==
    \/ SessionSubscribe
    \/ SessionPublish
    \/ SessionDeliver
    \/ Suback
    \/ Puback
    \/ Disconnect
    \/ Reconnect
    \/ SendQueued
    \/ SettleFuture

\* The connection resumes when it is down; a packet that can be sent again
\* and again is sent, an acknowledgment that can arrive again and again
\* arrives; a settled Promise is handed to the caller.
SessionFairness ==
    /\ WF_vars(Reconnect)
    /\ SF_vars(SendQueued)
    /\ SF_vars(Suback)
    /\ SF_vars(Puback)
    /\ WF_vars(SettleFuture)

SessionSpec == Init /\ [][SessionNext]_vars /\ SessionFairness

(***************************************************************************)
(* Two calls, of any two operations, by a caller whose names hold the      *)
(* characters a replacement pattern or a topic level is made of: what the  *)
(* operations render, with the connection left out.                        *)
(***************************************************************************)
MaxRenderCalls == 2

\* Requests: thing lamp1 with shadow main; a thingName of the two characters
\* $ and apostrophe; thing a with shadow c/shadow; thing a/shadow/name/c.
RenderRequests ==
    { Req(<<"l", "a", "m", "p", "1">>, <<"m", "a", "i", "n">>),
      Req(<<"$", "'">>, <<"m", "a", "i", "n">>),
      Req(<<"a">>, <<"c", "/", "s", "h", "a", "d", "o", "w">>),
      Req(<<"a", "/", "s", "h", "a", "d", "o", "w", "/", "n", "a", "m", "e", "/", "c">>,
          <<"m", "a", "i", "n">>) }

RenderSubscribe ==
    \E op \in SubscribeOps : subscribeWith(op, RenderRequests, {1}, {"accepts"}, MaxRenderCalls)

RenderPublish ==
    \E op \in PublishOps : publishWith(op, RenderRequests, {1}, {"accepts"}, MaxRenderCalls)

RenderNext ==
    \/ RenderSubscribe
    \/ RenderPublish

RenderSpec == Init /\ [][RenderNext]_vars

(***************************************************************************)
(* The sample's connection builders (cli_args.js, lines 190 to 273).  A    *)
(* built connection is the record of what its config builder was given.    *)
(***************************************************************************)
MaxBuilds == 1

\* ToBoolean of a value argv holds: a string, undefined or null.
Truthy(v) == v.t = "string" /\ v.s # <<>>

\* v != null
NotNullish(v) == v.t \notin {"undefined", "null"}

\* What yargs leaves in a string option: a text, the empty text, nothing.
Texts(text) == {JsString(text), JsString(<<>>), Undefined}

\* The argv of a sample: endpoint is required and proxy_port has a default;
\* a caller may also hand in null for ca_file; cert and key come together,
\* and a direct connection is asked for only with both.
Argvs ==
    { a \in [ signing_region : Texts(<<"e", "u">>),
              proxy_host : Texts(<<"p", "x">>),
              proxy_port : {JsNumber(<<"8", "0", "8", "0">>)},
              ca_file : Texts(<<"c", "a">>) \cup {JsNull},
              client_id : Texts(<<"i", "d">>),
              endpoint : {JsString(<<"e", "p">>)},
              cert : {JsString(<<"c", "r", "t">>), Undefined},
              key : {JsString(<<"k", "e", "y">>), Undefined} ] :
        /\ (a.cert = Undefined) = (a.key = Undefined)
        /\ ~Truthy(a.signing_region) => a.cert # Undefined }

\* Math.floor(Math.random() * 100000000), in decimal.
Randoms == {<<"0">>, <<"4", "2">>, <<"9", "9", "9", "9", "9", "9", "9", "9">>}

TestPrefix == <<"t", "e", "s", "t", "-">>

\* The steps both builders share: proxy options, CA file, clean session,
\* client id, endpoint.
Configure(config_builder, argv, random) ==
    [config_builder EXCEPT
        !.proxy = IF Truthy(argv.proxy_host)
                  THEN [host |-> argv.proxy_host, port |-> argv.proxy_port]
                  ELSE Undefined,
        !.ca_file = IF NotNullish(argv.ca_file) THEN argv.ca_file ELSE Undefined,
        !.clean_session = FALSE,
        !.client_id = IF Truthy(argv.client_id) THEN argv.client_id
                      ELSE JsString(TestPrefix \o random),
        !.endpoint = argv.endpoint]

\* A config builder as new_with_websockets or new_mtls_builder_from_path
\* leaves it; every builder is given its clean_session by with_clean_session
\* before it builds, so the value it starts with is never the built one.
NewBuilder(kind, region, credentials_provider, cert, key) ==
    [kind |-> kind, region |-> region, credentials_provider |-> credentials_provider,
     cert |-> cert, key |-> key, proxy |-> Undefined, ca_file |-> Undefined,
     clean_session |-> TRUE, client_id |-> Undefined, endpoint |-> Undefined]

\* The websocket builder leaving out the CA file.
build_websocket_mqtt_connection_from_args_without_ca(argv, random) ==
    [Configure(NewBuilder("websocket", argv.signing_region, "default", Undefined, Undefined),
               argv, random) EXCEPT !.ca_file = Undefined]

build_websocket_mqtt_connection_from_args(argv, random) ==
    Configure(NewBuilder("websocket", argv.signing_region, "default", Undefined, Undefined),
              argv, random)

build_direct_mqtt_connection_from_args(argv, random) ==
    Configure(NewBuilder("direct", Undefined, Undefined, argv.cert, argv.key),
              argv, random)

build_connection_from_cli_args ==
    /\ Len(connections) < MaxBuilds
    /\ \E argv \in Argvs, random \in Randoms :
          connections' = Append(connections,
              [argv |-> argv,
               config |-> IF Truthy(argv.signing_region)
                          THEN build_websocket_mqtt_connection_from_args(argv, random)
                          ELSE build_direct_mqtt_connection_from_args(argv, random)])
    /\ UNCHANGED <<calls, deliveries, invocations, dispatchFaults, outbound, online, options>>

BuildNext == build_connection_from_cli_args

BuildSpec == Init /\ [][BuildNext]_vars

(***************************************************************************)
(* The sample's argument helpers (cli_args.js, lines 26 to 188), applied   *)
(* in any order and number to one yargs instance.  An option is the record *)
(* of what .option was given; a default is written as its text, and Absent *)
(* where there is none.                                                    *)
(***************************************************************************)
Absent == "(absent)"

Option(name, alias, type, default, required) ==
    [name |-> name, alias |-> alias, type |-> type, default |-> default,
     required |-> required]

\* yargs.option(key, opt) for each opt of new: a key registered again keeps
\* one entry, and stays demanded once it has been.
Register(registered, new) ==
    {o \in registered : \A n \in new : n.name # o.name}
        \cup {[n EXCEPT !.required =
                  n.required \/ \E o \in registered : o.name = n.name /\ o.required] :
              n \in new}

UniversalArguments ==
    { Option("verbosity", "v", "string", "none", FALSE),
      Option("help", "h", "boolean", Absent, FALSE) }

CommonMqttArguments ==
    { Option("endpoint", "e", "string", Absent, TRUE),
      Option("ca_file", "r", "string", Absent, FALSE),
      Option("client_id", "C", "string", Absent, FALSE) }

DirectTlsConnectArguments(is_required) ==
    { Option("cert", "c", "string", Absent, is_required),
      Option("key", "k", "string", Absent, is_required) }

ProxyArguments ==
    { Option("proxy_host", "H", "string", Absent, FALSE),
      Option("proxy_port", "P", "number", "8080", FALSE) }

CommonWebsocketArguments(is_required) ==
    { Option("signing_region", "s", "string", Absent, is_required) }

TopicMessageArguments ==
    { Option("topic", "t", "string", "test/topic", FALSE),
      Option("count", "n", "number", "10", FALSE),
      Option("message", "M", "string", "Hello world!", FALSE) }

ShadowArguments ==
    { Option("shadow_property", "p", "string", "color", FALSE),
      Option("thing_name", "n", "string", "name", FALSE) }

\* An argument helper registering the options of new.
Add(new) ==
    /\ options' = Register(options, new)
    /\ UNCHANGED <<calls, deliveries, invocations, dispatchFaults, outbound, online,
                   connections>>

add_universal_arguments == Add(UniversalArguments)

add_common_mqtt_arguments == Add(CommonMqttArguments)

add_direct_tls_connect_arguments ==
    \E is_required \in BOOLEAN : Add(DirectTlsConnectArguments(is_required))

add_proxy_arguments == Add(ProxyArguments)

add_common_websocket_arguments ==
    \E is_required \in BOOLEAN : Add(CommonWebsocketArguments(is_required))

add_topic_message_arguments == Add(TopicMessageArguments)

add_shadow_arguments == Add(ShadowArguments)

add_direct_connection_establishment_arguments ==
    Add(UniversalArguments \cup CommonMqttArguments \cup DirectTlsConnectArguments(FALSE)
            \cup ProxyArguments)

add_connection_establishment_arguments ==
    Add(UniversalArguments \cup CommonMqttArguments \cup DirectTlsConnectArguments(FALSE)
            \cup ProxyArguments \cup CommonWebsocketArguments(FALSE))

ArgumentsNext ==
    \/ add_connection_establishment_arguments
    \/ add_direct_connection_establishment_arguments
    \/ add_universal_arguments
    \/ add_common_mqtt_arguments
    \/ add_direct_tls_connect_arguments
    \/ add_proxy_arguments
    \/ add_common_websocket_arguments
    \/ add_topic_message_arguments
    \/ add_shadow_arguments

ArgumentsSpec == Init /\ [][ArgumentsNext]_vars

(***************************************************************************)
(* Terms of the properties.                                                *)
(***************************************************************************)
\* Well-formed UTF-8 (the Unicode standard's table of well-formed sequences).
RECURSIVE ValidUtf8(_)
ValidUtf8(bytes) ==
    IF bytes = <<>> THEN TRUE
    ELSE IF bytes[1] \in Lead2
    THEN Len(bytes) >= 2 /\ bytes[2] \in Continuation /\ ValidUtf8(DropFirst(bytes, 2))
    ELSE bytes[1] \notin Continuation \cup NeverValid /\ ValidUtf8(Tail(bytes))

\* A payload that is valid UTF-8 and whose text is valid JSON.
WellFormed(payload) == ValidUtf8(payload) /\ JSON_parse(decode(payload)).ok

\* The payload of the delivery an invocation of the handler was made for.
PayloadOf(inv) == deliveries[inv.delivery].payload

\* The invocations of the handler made for delivery d.
InvocationsFor(d) == {k \in 1..Len(invocations) : invocations[k].delivery = d}

Subscriptions == {i \in 1..Len(calls) : calls[i].kind = "subscribe"}

\* The template with each placeholder replaced by the value, character for
\* character.
RECURSIVE LiteralFill(_, _, _)
LiteralFill(template, thingName, shadowName) ==
    IF template = <<>> THEN <<>>
    ELSE IF StartsWithAt(template, PhThingName, 1)
    THEN thingName \o LiteralFill(DropFirst(template, Len(PhThingName)), thingName, shadowName)
    ELSE IF StartsWithAt(template, PhShadowName, 1)
    THEN shadowName \o LiteralFill(DropFirst(template, Len(PhShadowName)), thingName, shadowName)
    ELSE <<template[1]>> \o LiteralFill(Tail(template), thingName, shadowName)

NonEmptyString(v) == v.t = "string" /\ v.s # <<>>

\* The request holds every path parameter the operation needs.
Populated(op, request) ==
    /\ ~ThrowsOnRead(request)
    /\ NonEmptyString(GetProperty(request, KeyThingName))
    /\ op \in NamedOps => NonEmptyString(GetProperty(request, KeyShadowName))

\* The calls that reached the connection.
Sent == {i \in 1..Len(calls) : calls[i].state # "NotSent"}

(***************************************************************************)
(* Properties.                                                             *)
(***************************************************************************)
\* C1: the handler is invoked exactly once for each delivery the transport
\* passes to the adapter, for the subscription it was delivered to, whether
\* the payload decodes or not; a message delivered twice gives two invocations.
HandlerOncePerDelivery ==
    /\ Len(invocations) = Len(deliveries)
    /\ \A d \in 1..Len(deliveries) :
          /\ Cardinality(InvocationsFor(d)) = 1
          /\ \A k \in InvocationsFor(d) : invocations[k].sub = deliveries[d].sub

\* A malformed message delivered twice to one subscription, handled twice.
RedeliveryHandledTwice ==
    /\ Len(deliveries) = 2
    /\ deliveries[1] = deliveries[2]
    /\ ~WellFormed(deliveries[1].payload)
    /\ Len(invocations) = 2
    /\ invocations[1].delivery = 1
    /\ invocations[2].delivery = 2

\* C2: in every invocation of the handler exactly one of error and response
\* is other than undefined.
ExactlyOneArgumentPopulated ==
    \A k \in 1..Len(invocations) :
        (invocations[k].error = Undefined) # (invocations[k].response = Undefined)

\* One invocation with a response and one with an error envelope.
BothKindsOfInvocation ==
    /\ \E k \in 1..Len(invocations) :
          invocations[k].error = Undefined /\ invocations[k].response # Undefined
    /\ \E k \in 1..Len(invocations) :
          invocations[k].error # Undefined /\ invocations[k].response = Undefined

\* C3: a payload that is not valid UTF-8 or not valid JSON reaches the handler
\* as an error envelope with the response undefined.
MalformedPayloadYieldsError ==
    \A k \in 1..Len(invocations) :
        ~WellFormed(PayloadOf(invocations[k]))
            => /\ invocations[k].error # Undefined
               /\ invocations[k].response = Undefined

\* C4: no fault leaves an adapter into the transport's dispatch loop.
NoFaultCrossesIntoTransport == dispatchFaults = <<>>

\* C5: a delivery leaves every call's Promise and subscription as they were,
\* and a well-formed message is handed to the handler as (undefined, event)
\* whatever was delivered before it.
DecodeFailureKeepsSubscription ==
    [][Len(deliveries') = Len(deliveries) + 1
        => /\ calls' = calls
           /\ LET d == deliveries'[Len(deliveries')]
              IN  WellFormed(d.payload)
                    => /\ Len(invocations') = Len(invocations) + 1
                       /\ invocations'[Len(invocations')].sub = d.sub
                       /\ invocations'[Len(invocations')].error = Undefined
                       /\ invocations'[Len(invocations')].response
                             = JSON_parse(decode(d.payload)).val]_vars

\* A malformed message, then a well-formed one dispatched on the same
\* subscription, whose Promise is not rejected.
WellFormedAfterMalformed ==
    /\ Len(deliveries) = 2
    /\ Len(invocations) = 2
    /\ deliveries[1].sub = deliveries[2].sub
    /\ ~WellFormed(deliveries[1].payload)
    /\ WellFormed(deliveries[2].payload)
    /\ invocations[1].error # Undefined
    /\ invocations[2].error = Undefined
    /\ invocations[2].response # Undefined
    /\ calls[deliveries[2].sub].future # "rejected"

\* C6: a message delivered while the SUBSCRIBE is not yet acknowledged is
\* decoded and handed to the handler.
DispatchBeforeSuback ==
    [][(/\ Len(deliveries') = Len(deliveries) + 1
        /\ calls[deliveries'[Len(deliveries')].sub].state = "Requested")
        => /\ Len(invocations') = Len(invocations) + 1
           /\ invocations'[Len(invocations')].sub = deliveries'[Len(deliveries')].sub
           /\ invocations'[Len(invocations')].delivery = Len(deliveries')]_vars

\* The handler has run while the subscribe Promise is still pending.
HandledWhilePending ==
    \E k \in 1..Len(invocations) :
        /\ calls[invocations[k].sub].state = "Requested"
        /\ calls[invocations[k].sub].future = "pending"

\* C7: the Promise of a subscribe operation is resolved only when the SUBACK
\* has been received, and rejected only when the transport failed the
\* SUBSCRIBE or the call never reached it.
ResolvedOnlyAfterSuback ==
    \A i \in Subscriptions :
        /\ calls[i].future = "resolved" => calls[i].state = "Acknowledged"
        /\ calls[i].future = "rejected" => calls[i].state \in {"Failed", "NotSent"}

\* A subscribe Promise resolved after its SUBACK.
SubscribeResolved ==
    \E i \in Subscriptions :
        calls[i].future = "resolved" /\ calls[i].state = "Acknowledged"

\* C8: a subscription goes from Requested to Acknowledged or to Failed and
\* nowhere else; it is never dropped and never Unsubscribed.
SubscriptionLifecycle ==
    [][/\ Len(calls') >= Len(calls)
       /\ \A i \in Subscriptions :
             /\ calls'[i].state \in {"Requested", "Acknowledged", "Failed", "NotSent"}
             /\ \/ calls'[i].state = calls[i].state
                \/ /\ calls[i].state = "Requested"
                   /\ calls'[i].state \in {"Acknowledged", "Failed"}]_vars

\* A subscription that was acknowledged and then took a malformed message.
AcknowledgedAndDelivered ==
    \E d \in 1..Len(deliveries) :
        /\ calls[deliveries[d].sub].state = "Acknowledged"
        /\ ~WellFormed(deliveries[d].payload)

\* C9: for a request whose path parameters are non-empty strings, the topic
\* handed to the transport is the operation's template with {thingName} and
\* {shadowName} replaced by the request's values, character for character.
TopicIsLiteralSubstitution ==
    \A i \in Sent :
        Populated(calls[i].op, calls[i].request)
            => calls[i].topic
                 = LiteralFill(Template(calls[i].op),
                               JsToString(GetProperty(calls[i].request, KeyThingName)),
                               JsToString(GetProperty(calls[i].request, KeyShadowName)))

\* C10: for a request with every path parameter populated, the rendered topic
\* holds no { and no }.
NoBraceRemains ==
    \A i \in Sent :
        Populated(calls[i].op, calls[i].request)
            => \A k \in 1..Len(calls[i].topic) : calls[i].topic[k] \notin {"{", "}"}

\* C11: a call whose request lacks a required path parameter, or holds the
\* empty string for it, produces no topic: it fails before the connection is
\* reached.
MissingParameterFailsRendering ==
    \A i \in 1..Len(calls) :
        ~Populated(calls[i].op, calls[i].request)
            => /\ calls[i].state = "NotSent"
               /\ calls[i].topic = <<>>
               /\ calls[i].future = "rejected"

\* The calls of the connection made by call number i.
OutboundOf(i) == {k \in 1..Len(outbound) : outbound[k].call = i}

\* The request of call i can be read and serialized.
Serializable(i) == ~ThrowsOnRead(calls[i].request) /\ ~StringifyThrows(calls[i].request)

Publishes == {i \in 1..Len(calls) : calls[i].kind = "publish"}

\* C12: a call of a publish operation whose request can be read and
\* serialized calls connection.publish exactly once, with the rendered
\* topic, JSON.stringify(request) and the qos the caller passed.
PublishHandedOverOnce ==
    \A i \in Publishes :
        Serializable(i) =>
            /\ Cardinality(OutboundOf(i)) = 1
            /\ \A k \in OutboundOf(i) :
                  outbound[k] = Outbound("publish", i,
                                         RenderTopic(calls[i].op, calls[i].request),
                                         JSON_stringify(calls[i].request),
                                         calls[i].qos)

\* A named-shadow publish was handed to the connection at QoS 2 with its
\* serialized request.
NamedPublishHandedOver ==
    \E k \in 1..Len(outbound) :
        /\ outbound[k].method = "publish"
        /\ calls[outbound[k].call].op \in NamedPublishOps
        /\ outbound[k].qos = 2
        /\ outbound[k].payload = JSON_stringify(Req(<<"l", "a", "m", "p", "1">>, <<"m", "a", "i", "n">>))

\* C13: a call of a publish operation makes at most one call of the
\* connection, a publish; it registers no subscription, leaves the earlier
\* calls, the deliveries and the handler's invocations as they are; and a
\* message arriving on a subscribed topic changes no publish call.
PublishOnlyPublishes ==
    [][/\ (Len(calls') = Len(calls) + 1 /\ calls'[Len(calls')].kind = "publish") =>
             /\ \A i \in 1..Len(calls) : calls'[i] = calls[i]
             /\ Subscriptions' = Subscriptions
             /\ deliveries' = deliveries
             /\ invocations' = invocations
             /\ dispatchFaults' = dispatchFaults
             /\ Len(outbound') <= Len(outbound) + 1
             /\ \A k \in 1..Len(outbound) : outbound'[k] = outbound[k]
             /\ \A k \in (Len(outbound) + 1)..Len(outbound') :
                   outbound'[k].method = "publish"
       /\ deliveries' # deliveries => \A i \in Publishes : calls'[i] = calls[i]]_vars

\* A publish made after a subscription was acknowledged has resolved, and no
\* message has arrived.
PublishResolvedBesideSubscription ==
    \E i \in Publishes, j \in Subscriptions :
        /\ j < i
        /\ calls[j].state = "Acknowledged"
        /\ calls[i].future = "resolved"
        /\ deliveries = <<>>

PublishCompletionByQoS ==
    \A i \in Publishes :
        calls[i].future = "resolved" =>
            /\ calls[i].qos = 0 => calls[i].state = "Requested"
            /\ calls[i].qos = 1 => calls[i].state = "Acknowledged"

\* A publish at QoS 0 has resolved with its packet sent and nothing
\* acknowledged.
QoS0ResolvedOnSend ==
    \E i \in Publishes :
        /\ calls[i].qos = 0
        /\ calls[i].state = "Requested"
        /\ calls[i].future = "resolved"

\* C16: a call made while the connection is offline is queued with its
\* Promise pending; a queued call stays pending and leaves the queue only by
\* being sent while the connection is up; and the Promise of every queued
\* call eventually resolves.
OfflineCallQueuedThenResolved ==
    /\ [][/\ (~online /\ Len(calls') = Len(calls) + 1) =>
                /\ calls'[Len(calls')].state = "Queued"
                /\ calls'[Len(calls')].future = "pending"
          /\ \A i \in 1..Len(calls) :
                calls[i].state = "Queued" =>
                    /\ calls[i].future = "pending"
                    /\ calls'[i].future = "pending"
                    /\ calls'[i].state \in {"Queued", "Requested"}
                    /\ calls'[i].state = "Requested" => online]_vars
    /\ \A i \in 1..MaxSessionCalls :
          (Len(calls) >= i /\ calls[i].state = "Queued")
              ~> (Len(calls) >= i /\ calls[i].future = "resolved")

\* A subscribe and a publish both wait in the queue of the offline connection.
BothKindsQueuedOffline ==
    /\ ~online
    /\ \E i \in Subscriptions, j \in Publishes :
          /\ calls[i].state = "Queued" /\ calls[i].future = "pending"
          /\ calls[j].state = "Queued" /\ calls[j].future = "pending"

\* C17: a publish call that failed (the request could not be read for the
\* topic, JSON.stringify threw, connection.publish threw or reported a
\* failure) never throws to its caller and never resolves: its Promise is
\* rejected, at once when the failure is an exception.
PublishFailureRejects ==
    \A i \in Publishes :
        /\ calls[i].future # "thrown"
        /\ ~Serializable(i) =>
              /\ calls[i].state = "NotSent"
              /\ calls[i].future = "rejected"
              /\ OutboundOf(i) = {}
        /\ calls[i].state \in {"NotSent", "Failed"} =>
              calls[i].future \in {"pending", "rejected"}

\* A publish whose request holds a BigInt was rejected before the connection
\* was reached.
SerializationFailureRejected ==
    \E i \in Publishes :
        /\ ~ThrowsOnRead(calls[i].request)
        /\ StringifyThrows(calls[i].request)
        /\ calls[i].future = "rejected"

\* Values JSON represents: the empty object, null, the ErrorResponse, and
\* the requests that can be serialized.
RoundTripValues ==
    {JsObject(<<>>), JsNull, ErrorBody}
        \cup {r \in Requests : ~ThrowsOnRead(r) /\ ~StringifyThrows(r)}

\* C18: decoding (TextDecoder, then JSON.parse) the bytes of JSON.stringify(x)
\* gives x: the adapter hands the handler x for a message carrying them, and
\* what a publish operation hands the connection decodes to its request.
CodecRoundTrip ==
    /\ \A k \in 1..Len(invocations) :
          \A x \in RoundTripValues :
              PayloadOf(invocations[k]) = encode(JSON_stringify(x)) =>
                  /\ invocations[k].error = Undefined
                  /\ invocations[k].response = x
    /\ \A k \in 1..Len(outbound) :
          outbound[k].method = "publish" =>
              LET back == JSON_parse(decode(encode(outbound[k].payload)))
              IN  back.ok /\ back.val = calls[outbound[k].call].request

\* The handler was handed the ErrorResponse decoded from its serialization.
ErrorBodyRoundTripped ==
    \E k \in 1..Len(invocations) :
        /\ PayloadOf(invocations[k]) = encode(JSON_stringify(ErrorBody))
        /\ invocations[k].response = ErrorBody

\* C19: an error handed to the handler is an IotShadowError whose payload is
\* the bytes of the message it was raised for and whose message is that of
\* the SyntaxError JSON.parse threw.
ErrorCarriesFailedPayload ==
    \A k \in 1..Len(invocations) :
        invocations[k].error # Undefined =>
            /\ invocations[k].error.t = "IotShadowError"
            /\ invocations[k].error.payload = PayloadOf(invocations[k])
            /\ invocations[k].error.message = SyntaxErrorMessage

\* Two malformed messages with different bytes were each reported with their
\* own bytes.
TwoErrorsTwoPayloads ==
    \E k, l \in 1..Len(invocations) :
        /\ invocations[k].error # Undefined
        /\ invocations[l].error # Undefined
        /\ invocations[k].error.payload # invocations[l].error.payload

\* C20: a well-formed message on a rejected topic reaches the handler as
\* (undefined, the decoded ErrorResponse), never as an error.
ServiceErrorIsResponse ==
    \A k \in 1..Len(invocations) :
        (/\ calls[invocations[k].sub].op \in RejectedOps
         /\ WellFormed(PayloadOf(invocations[k]))) =>
            /\ invocations[k].error = Undefined
            /\ invocations[k].response = JSON_parse(decode(PayloadOf(invocations[k]))).val
            /\ invocations[k].response # Undefined

\* The ErrorResponse arrived on the update rejected topic of a named shadow
\* and was handed over as the response, and a malformed message on the same
\* subscription was handed over as an error.
ServiceErrorBesideDecodeFailure ==
    \E k, l \in 1..Len(invocations) :
        /\ invocations[k].sub = invocations[l].sub
        /\ calls[invocations[k].sub].op = "subscribeToUpdateNamedShadowRejected"
        /\ PayloadOf(invocations[k]) = encode(JSON_stringify(ErrorBody))
        /\ invocations[k].response = ErrorBody
        /\ invocations[k].error = Undefined
        /\ invocations[l].error # Undefined

\* C21: the template of an operation is fixed by the operation alone, and
\* no other operation has the template of an operation that has been called.
TemplatesDistinct ==
    \A i \in 1..Len(calls) :
        \A op \in Ops \ {calls[i].op} : Template(op) # Template(calls[i].op)

\* A named-shadow operation was called whose template differs from that of
\* its classic counterpart only in the name level.
NamedCounterpartCalled ==
    \E i \in 1..Len(calls) :
        /\ calls[i].op = "subscribeToNamedShadowUpdatedEvents"
        /\ calls[i].state = "Requested"
        /\ Template(calls[i].op) # Template("subscribeToShadowUpdatedEvents")

\* C22: the only methods of the connection the layer calls are publish and
\* subscribe; a call of an operation or a delivery leaves the connection up
\* or down as it was, a delivery makes no call of the connection, and no
\* subscription is ever unsubscribed.
OnlyPublishAndSubscribe ==
    [][/\ \A k \in 1..Len(outbound') : outbound'[k].method \in {"publish", "subscribe"}
       /\ (Len(calls') > Len(calls) \/ deliveries' # deliveries) => online' = online
       /\ deliveries' # deliveries => outbound' = outbound
       /\ \A i \in 1..Len(calls') : calls'[i].state # "Unsubscribed"]_vars

\* After a delivery the connection dropped, and a subscribe made since waits
\* in the queue with the connection still down.
SubscribedWhileDown ==
    /\ ~online
    /\ Len(deliveries) = 1
    /\ \E k \in 1..Len(outbound) :
          /\ outbound[k].method = "subscribe"
          /\ calls[outbound[k].call].state = "Queued"

\* C23: the handler is invoked inside the delivery, after every invocation
\* made for an earlier delivery; nothing else ever adds, removes or moves an
\* invocation, so invocations follow the order of the deliveries.
HandlerInDeliveryOrder ==
    [][/\ deliveries' # deliveries =>
             /\ Len(invocations') = Len(invocations) + 1
             /\ \A k \in 1..Len(invocations) : invocations'[k] = invocations[k]
             /\ invocations'[Len(invocations')].delivery = Len(deliveries')
             /\ invocations'[Len(invocations')].sub = deliveries'[Len(deliveries')].sub
       /\ deliveries' = deliveries => invocations' = invocations
       /\ \A k, l \in 1..Len(invocations') :
             k < l => invocations'[k].delivery < invocations'[l].delivery]_vars

\* Two different messages delivered to one subscription were handled in the
\* order of their delivery.
TwoMessagesHandledInOrder ==
    /\ Len(deliveries) = 2
    /\ deliveries[1].sub = deliveries[2].sub
    /\ deliveries[1].payload # deliveries[2].payload
    /\ Len(invocations) = 2
    /\ PayloadOf(invocations[1]) = deliveries[1].payload
    /\ PayloadOf(invocations[2]) = deliveries[2].payload

ResponsePairs ==
    { <<"publishGetNamedShadow", "subscribeToGetNamedShadowAccepted", AcceptedSeg>>,
      <<"publishGetNamedShadow", "subscribeToGetNamedShadowRejected", RejectedSeg>>,
      <<"publishUpdateNamedShadow", "subscribeToUpdateNamedShadowAccepted", AcceptedSeg>>,
      <<"publishUpdateNamedShadow", "subscribeToUpdateNamedShadowRejected", RejectedSeg>>,
      <<"publishDeleteNamedShadow", "subscribeToDeleteNamedShadowAccepted", AcceptedSeg>>,
      <<"publishDeleteNamedShadow", "subscribeToDeleteNamedShadowRejected", RejectedSeg>> }

\* C25: for one thingName and shadowName, the topic a response subscription
\* of a named-shadow operation subscribes to is the topic the operation
\* publishes to with /accepted or /rejected appended.
ResponseTopicFollowsRequestTopic ==
    \A i, j \in 1..Len(calls) :
        \A pair \in ResponsePairs :
            (/\ calls[i].op = pair[1]
             /\ calls[j].op = pair[2]
             /\ calls[i].request = calls[j].request)
                => calls[j].topic = calls[i].topic \o pair[3]

\* The path parameters an operation reads from the request of call i.
PathParameters(i) ==
    IF calls[i].op \in NamedOps
    THEN <<GetProperty(calls[i].request, KeyThingName),
           GetProperty(calls[i].request, KeyShadowName)>>
    ELSE <<GetProperty(calls[i].request, KeyThingName)>>

\* C26: two calls that render the same topic are calls of the same operation
\* with the same thingName and, for a named shadow, the same shadowName.
RenderingInjective ==
    \A i, j \in 1..Len(calls) :
        calls[i].topic = calls[j].topic =>
            /\ calls[i].op = calls[j].op
            /\ PathParameters(i) = PathParameters(j)

\* A call that fails before the connection is reached: the request is null,
\* or, for a publish, cannot be serialized.
FailsBeforeTransport(i) ==
    \/ ThrowsOnRead(calls[i].request)
    \/ calls[i].kind = "publish" /\ StringifyThrows(calls[i].request)

\* C27: a call that fails before the connection is reached makes no call of
\* the connection, is never registered or sent, has its handler never
\* invoked, and its Promise is rejected.
EarlyFailureLeavesTransportUntouched ==
    \A i \in 1..Len(calls) :
        FailsBeforeTransport(i) =>
            /\ OutboundOf(i) = {}
            /\ calls[i].state = "NotSent"
            /\ calls[i].future = "rejected"
            /\ \A d \in 1..Len(deliveries) : deliveries[d].sub # i
            /\ \A k \in 1..Len(invocations) : invocations[k].sub # i

\* A subscribe made with a null request was rejected with nothing handed to
\* the connection.
NullSubscribeRejected ==
    \E i \in Subscriptions :
        /\ calls[i].request = JsNull
        /\ calls[i].future = "rejected"
        /\ outbound = <<>>

\* C28: each connection built is a websocket connection signed for
\* argv.signing_region when that is set, and otherwise a direct one from
\* argv.cert and argv.key; its clean session is off, its endpoint is
\* argv.endpoint, its client id is argv.client_id when given and otherwise
\* test- followed by a number, it has proxy options exactly when
\* argv.proxy_host is set and a CA file exactly when argv.ca_file != null.
ConnectionBuiltFromArgs ==
    \A k \in 1..Len(connections) :
        LET argv == connections[k].argv
            config == connections[k].config
        IN  /\ config.kind = IF Truthy(argv.signing_region) THEN "websocket" ELSE "direct"
            /\ config.kind = "websocket" =>
                  /\ config.region = argv.signing_region
                  /\ config.credentials_provider = "default"
            /\ config.kind = "direct" =>
                  /\ config.cert = argv.cert
                  /\ config.key = argv.key
            /\ config.clean_session = FALSE
            /\ config.endpoint = argv.endpoint
            /\ Truthy(argv.client_id) => config.client_id = argv.client_id
            /\ ~Truthy(argv.client_id) =>
                  /\ config.client_id.t = "string"
                  /\ StartsWithAt(config.client_id.s, TestPrefix, 1)
                  /\ Len(config.client_id.s) > Len(TestPrefix)
            /\ (config.proxy # Undefined) = Truthy(argv.proxy_host)
            /\ config.proxy # Undefined =>
                  config.proxy = [host |-> argv.proxy_host, port |-> argv.proxy_port]
            /\ (config.ca_file # Undefined) = NotNullish(argv.ca_file)
            /\ config.ca_file # Undefined => config.ca_file = argv.ca_file

\* A websocket connection was built through a proxy with a CA file and a
\* generated client id, from an argv that also held a cert and a key.
WebsocketBuiltWithProxyAndCa ==
    \E k \in 1..Len(connections) :
        /\ connections[k].config.kind = "websocket"
        /\ connections[k].argv.cert # Undefined
        /\ connections[k].config.proxy # Undefined
        /\ connections[k].config.ca_file = JsString(<<"c", "a">>)
        /\ connections[k].argv.client_id = Undefined

\* C29: whatever argument helpers have been applied to the yargs instance,
\* two registered options with the same alias are the same option.
AliasNamesOneOption ==
    \A o, p \in options : o.alias = p.alias => o.name = p.name

=============================================================================
